---- MODULE Spec2Model ----
(***************************************************************************)
(* A model of src/misc/BitSet.ts: a growable bit vector stored as an array *)
(* of 16-bit words (Uint16Array).  A store is a sequence of words; word i  *)
(* of the source is element i+1 of the sequence.                           *)
(***************************************************************************)
EXTENDS Integers, Sequences, FiniteSets, TLC

VARIABLES sets, last, iter, nops

vars == <<sets, last, iter, nops>>

(***************************************************************************)
(* Bounds of the model.                                                    *)
(***************************************************************************)
MaxOps == 3
MaxWords == 2
MaxYield == 3

(***************************************************************************)
(* Values of the language.                                                 *)
(***************************************************************************)
\* what reading a typed array outside 0..length-1 yields
Undefined == -1

AllOnes == 65535

EMPTY_DATA == << >>

Min(a, b) == IF a < b THEN a ELSE b

Max(a, b) == IF a > b THEN a ELSE b

\* ToInt32 of a word or of undefined, as the bitwise operators apply it
ToInt32(v) == IF v = Undefined THEN 0 ELSE v

RECURSIVE BitAnd(_, _)
BitAnd(x, y) ==
    IF x = 0 \/ y = 0 THEN 0
    ELSE (x % 2) * (y % 2) + 2 * BitAnd(x \div 2, y \div 2)

RECURSIVE BitOr(_, _)
BitOr(x, y) ==
    IF x = 0 THEN y
    ELSE IF y = 0 THEN x
    ELSE Max(x % 2, y % 2) + 2 * BitOr(x \div 2, y \div 2)

RECURSIVE BitXor(_, _)
BitXor(x, y) ==
    IF x = 0 THEN y
    ELSE IF y = 0 THEN x
    ELSE ((x + y) % 2) + 2 * BitXor(x \div 2, y \div 2)

\* x >>> n for a non-negative x and 0 <= n <= 31
Shr(x, n) == x \div (2 ^ n)

\* data[i]
Rd(data, i) == IF i >= 0 /\ i < Len(data) THEN data[i + 1] ELSE Undefined

\* data[i] = v : the store keeps v modulo 2^16, a write out of bounds is dropped
Wr(data, i, v) ==
    IF i >= 0 /\ i < Len(data) THEN [data EXCEPT ![i + 1] = v % 65536] ELSE data

\* new Uint16Array(n)
NewArray(n) == [i \in 1..n |-> 0]

\* data.slice(0, end) for end >= 0
slice(data, end) == SubSeq(data, 1, Min(end, Len(data)))

\* a call's outcome: a returned value or a thrown RangeError
Ret(v) == [thrown |-> FALSE, value |-> v]

Throw == [thrown |-> TRUE, value |-> 0]

(***************************************************************************)
(* Bit arithmetic helpers.                                                 *)
(***************************************************************************)
\* bitNumber >>> 4 : the operand is taken modulo 2^32 first
getIndex(bitNumber) ==
    IF bitNumber >= 0 THEN bitNumber \div 16
    ELSE 268435456 + (bitNumber \div 16)

unIndex(n) == n * 16

RECURSIVE findLSBSetFrom(_, _)
findLSBSetFrom(word, i) ==
    IF i >= 16 THEN Throw
    ELSE IF BitAnd(word, 2 ^ i) # 0 THEN Ret(i)
    ELSE findLSBSetFrom(word, i + 1)

findLSBSet(word) == findLSBSetFrom(word, 0)

RECURSIVE findMSBSetFrom(_, _)
findMSBSetFrom(word, i) ==
    IF i < 0 THEN Throw
    ELSE IF BitAnd(word, 2 ^ i) # 0 THEN Ret(i)
    ELSE findMSBSetFrom(word, i - 1)

findMSBSet(word) == findMSBSetFrom(word, 15)

bitsFor(fromBit, toBit) ==
    LET f == fromBit % 16
        t == toBit % 16
    IN  IF f = t THEN 2 ^ f
        ELSE BitXor(Shr(AllOnes, 15 - t), Shr(AllOnes, 16 - f))

\* unIndex(word) + find...(w): the sum, or the helper's RangeError
Plus(base, r) == IF r.thrown THEN Throw ELSE Ret(base + r.value)

(***************************************************************************)
(* Reading a bit.                                                          *)
(***************************************************************************)
get(data, bitIndex) ==
    BitAnd(ToInt32(Rd(data, getIndex(bitIndex))), bitsFor(bitIndex, bitIndex)) # 0

size(data) == Len(data) * 16

(***************************************************************************)
(* Mutation: set, clear, flip.  A mutator yields the store it leaves and   *)
(* whether it threw a RangeError.                                          *)
(***************************************************************************)
Done(data) == [data |-> data, thrown |-> FALSE]

Failed(data) == [data |-> data, thrown |-> TRUE]

_setBits(data, word, value, mask) ==
    IF value THEN Wr(data, word, BitOr(ToInt32(Rd(data, word)), mask))
    ELSE Wr(data, word, BitAnd(ToInt32(Rd(data, word)), BitXor(AllOnes, mask)))

\* while (word < lastWord) { this.data[word++] = value ? 0xFFFF : 0; }
RECURSIVE setFill(_, _, _, _)
setFill(data, word, lastWord, value) ==
    IF word < lastWord
    THEN setFill(Wr(data, word, IF value THEN AllOnes ELSE 0), word + 1, lastWord, value)
    ELSE data

\* the range check of set refusing negative ends only, not swapped ones
setInvalidNoOrder(fromIndex, toIndex) == fromIndex < 0 \/ toIndex < 0

\* the range check of set
setInvalid(fromIndex, toIndex) == fromIndex < 0 \/ fromIndex > toIndex

\* let temp = new Uint16Array(lastWord + 1); copy; this.data = temp
grow(data, n) == [i \in 1..n |-> IF i <= Len(data) THEN data[i] ELSE 0]

\* set(fromIndex, toIndex, value) once the overloads are resolved
set(data, fromIndex, toIndex, value) ==
    IF setInvalid(fromIndex, toIndex) THEN Failed(data)
    ELSE
      LET word == getIndex(fromIndex)
          lastWord0 == getIndex(toIndex)
          grown == IF value /\ lastWord0 >= Len(data) THEN grow(data, lastWord0 + 1) ELSE data
          adjust == ~value /\ lastWord0 >= Len(data)
          lastWord == IF adjust THEN Len(data) - 1 ELSE lastWord0
          toIdx == IF adjust THEN Len(data) * 16 - 1 ELSE toIndex
      IN  IF ~value /\ word >= Len(data) THEN Done(data)
          ELSE IF word = lastWord
          THEN Done(_setBits(grown, word, value, bitsFor(fromIndex, toIdx)))
          ELSE Done(_setBits(setFill(_setBits(grown, word, value, bitsFor(fromIndex, 15)),
                                     word + 1, lastWord, value),
                             lastWord, value, bitsFor(0, toIdx)))

\* clear(): this.data.fill(0)
clearAll(data) == [i \in 1..Len(data) |-> 0]

\* while (word < lastWord) { this.data[word++] ^= 0xFFFF; }
RECURSIVE flipFill(_, _, _)
flipFill(data, word, lastWord) ==
    IF word < lastWord
    THEN flipFill(Wr(data, word, BitXor(ToInt32(Rd(data, word)), AllOnes)), word + 1, lastWord)
    ELSE data

\* the range check of flip
flipInvalid(fromIndex, toIndex) == fromIndex < 0 \/ toIndex < fromIndex

flipWord(data, word, mask) == Wr(data, word, BitXor(ToInt32(Rd(data, word)), mask))

\* flip(fromIndex, toIndex); flip(bitIndex) is flip(bitIndex, bitIndex)
flip(data, fromIndex, toIndex) ==
    IF flipInvalid(fromIndex, toIndex) THEN Failed(data)
    ELSE
      LET word == getIndex(fromIndex)
          lastWord == getIndex(toIndex)
      IN  IF word = lastWord
          THEN Done(flipWord(data, word, bitsFor(fromIndex, toIndex)))
          ELSE Done(flipWord(flipFill(flipWord(data, word, bitsFor(fromIndex, 15)),
                                      word + 1, lastWord),
                             lastWord, bitsFor(0, toIndex)))

(***************************************************************************)
(* Construction.                                                           *)
(***************************************************************************)
\* new BitSet() and new BitSet(nbits)
newBitSet(nbits) ==
    IF nbits = 0 THEN Done(EMPTY_DATA)
    ELSE IF nbits < 0 THEN Failed(EMPTY_DATA)
    ELSE Done(NewArray(getIndex(nbits - 1) + 1))

\* new BitSet(other), clone(): arg.data.slice(0)
clone(data) == slice(data, Len(data))

(***************************************************************************)
(* Set algebra.  A loop yields the words it wrote and the index of the     *)
(* last non-zero word it saw.                                              *)
(***************************************************************************)
RECURSIVE andLoop(_, _, _, _, _)
andLoop(data, other, i, words, lastWord) ==
    IF i < words
    THEN LET value == BitAnd(data[i + 1], other[i + 1])
         IN  andLoop(Wr(data, i, value), other, i + 1, words,
                     IF value # 0 THEN i ELSE lastWord)
    ELSE [data |-> data, lastWord |-> lastWord]

\* what and/andNot leave in this.data after the loop
trimShort(data, lastWord) ==
    IF lastWord < Len(data) - 1 THEN slice(data, lastWord + 1)
    ELSE IF lastWord = -1 THEN EMPTY_DATA
    ELSE data

and(data, other) ==
    LET r == andLoop(data, other, 0, Min(Len(data), Len(other)), -1)
    IN  trimShort(r.data, r.lastWord)

RECURSIVE andNotLoop(_, _, _, _, _)
andNotLoop(data, other, i, words, lastWord) ==
    IF i < words
    THEN LET value == BitAnd(data[i + 1], BitXor(other[i + 1], AllOnes))
         IN  andNotLoop(Wr(data, i, value), other, i + 1, words,
                        IF value # 0 THEN i ELSE lastWord)
    ELSE [data |-> data, lastWord |-> lastWord]

andNot(data, other) ==
    LET r == andNotLoop(data, other, 0, Min(Len(data), Len(other)), -1)
    IN  trimShort(r.data, r.lastWord)

\* for (i = 0; i < minWords; i++) dest[i] = data[i] | other[i]
RECURSIVE orLoop(_, _, _, _, _, _)
orLoop(dest, data, other, i, minWords, lastWord) ==
    IF i < minWords
    THEN LET value == BitOr(data[i + 1], other[i + 1])
         IN  orLoop(Wr(dest, i, value), data, other, i + 1, minWords,
                    IF value # 0 THEN i ELSE lastWord)
    ELSE [data |-> dest, lastWord |-> lastWord]

RECURSIVE xorLoop(_, _, _, _, _, _)
xorLoop(dest, data, other, i, minWords, lastWord) ==
    IF i < minWords
    THEN LET value == BitXor(data[i + 1], other[i + 1])
         IN  xorLoop(Wr(dest, i, value), data, other, i + 1, minWords,
                     IF value # 0 THEN i ELSE lastWord)
    ELSE [data |-> dest, lastWord |-> lastWord]

\* for (i = minWords; i < words; i++) dest[i] = longer[i]
RECURSIVE copyLoop(_, _, _, _, _)
copyLoop(dest, longer, i, words, lastWord) ==
    IF i < words
    THEN LET value == longer[i + 1]
         IN  copyLoop(Wr(dest, i, value), longer, i + 1, words,
                      IF value # 0 THEN i ELSE lastWord)
    ELSE [data |-> dest, lastWord |-> lastWord]

\* const dest = data.length === words ? data : new Uint16Array(words)
destFor(data, words) == IF Len(data) = words THEN data ELSE NewArray(words)

longerOf(data, other) == IF Len(data) > Len(other) THEN data ELSE other

\* the tail of or: what is stored in this.data
orTrim(dest, lastWord) ==
    IF lastWord = -1 THEN EMPTY_DATA
    ELSE IF Len(dest) = lastWord + 1 THEN dest
    ELSE slice(dest, lastWord)

or(data, other) ==
    LET minWords == Min(Len(data), Len(other))
        words == Max(Len(data), Len(other))
        r1 == orLoop(destFor(data, words), data, other, 0, minWords, -1)
        r2 == copyLoop(r1.data, longerOf(data, other), minWords, words, r1.lastWord)
    IN  orTrim(r2.data, r2.lastWord)

\* the tail of xor cutting one word too many, as the tail of or does
xorTrimShort(dest, lastWord) ==
    IF lastWord = -1 THEN EMPTY_DATA
    ELSE IF Len(dest) = lastWord + 1 THEN dest
    ELSE slice(dest, lastWord)

\* the tail of xor: what is stored in this.data
xorTrim(dest, lastWord) ==
    IF lastWord = -1 THEN EMPTY_DATA
    ELSE IF Len(dest) = lastWord + 1 THEN dest
    ELSE slice(dest, lastWord + 1)

xor(data, other) ==
    LET minWords == Min(Len(data), Len(other))
        words == Max(Len(data), Len(other))
        r1 == xorLoop(destFor(data, words), data, other, 0, minWords, -1)
        r2 == copyLoop(r1.data, longerOf(data, other), minWords, words, r1.lastWord)
    IN  xorTrim(r2.data, r2.lastWord)

(***************************************************************************)
(* Scans.                                                                  *)
(***************************************************************************)
\* for (; word < length; word++) { if (data[word] !== 0xFFFF) break; }
RECURSIVE skipFullUp(_, _)
skipFullUp(data, word) ==
    IF word < Len(data) /\ Rd(data, word) = AllOnes THEN skipFullUp(data, word + 1)
    ELSE word

\* the early exit of nextClearBit
nextClearBitPastEnd(word, length) == word > length

nextClearBit(data, fromIndex) ==
    IF fromIndex < 0 THEN Throw
    ELSE
      LET length == Len(data)
          word == getIndex(fromIndex)
          ignore == BitXor(AllOnes, bitsFor(fromIndex, 15))
      IN  IF nextClearBitPastEnd(word, length) THEN Ret(-1)
          ELSE IF BitOr(ToInt32(Rd(data, word)), ignore) = AllOnes
          THEN LET w == skipFullUp(data, word + 1)
               IN  IF w = length THEN Ret(-1)
                   ELSE Plus(unIndex(w), findLSBSet(BitXor(ToInt32(Rd(data, w)), AllOnes)))
          ELSE Plus(unIndex(word),
                    findLSBSet(BitXor(BitOr(ToInt32(Rd(data, word)), ignore), AllOnes)))

\* for (; word < length; word++) { if (data[word] !== 0) break; }
RECURSIVE skipZeroUp(_, _)
skipZeroUp(data, word) ==
    IF word < Len(data) /\ Rd(data, word) = 0 THEN skipZeroUp(data, word + 1)
    ELSE word

nextSetBit(data, fromIndex) ==
    IF fromIndex < 0 THEN Throw
    ELSE
      LET length == Len(data)
          word == getIndex(fromIndex)
          mask == bitsFor(fromIndex, 15)
      IN  IF word > length THEN Ret(-1)
          ELSE IF BitAnd(ToInt32(Rd(data, word)), mask) = 0
          THEN LET w == skipZeroUp(data, word + 1)
               IN  IF w >= length THEN Ret(-1)
                   ELSE Plus(unIndex(w), findLSBSet(BitAnd(ToInt32(Rd(data, w)), AllOnes)))
          ELSE Plus(unIndex(word), findLSBSet(BitAnd(ToInt32(Rd(data, word)), mask)))

\* for (; word >= 0; word--) { if (data[word] !== 0xFFFF) break; }
RECURSIVE skipFullDown(_, _)
skipFullDown(data, word) ==
    IF word >= 0 /\ Rd(data, word) = AllOnes THEN skipFullDown(data, word - 1)
    ELSE word

\* word = getIndex(fromIndex); if (word >= length) word = length - 1
startWord(fromIndex, length) ==
    IF getIndex(fromIndex) >= length THEN length - 1 ELSE getIndex(fromIndex)

previousClearBit(data, fromIndex) ==
    IF fromIndex < 0 THEN Throw
    ELSE
      LET word == startWord(fromIndex, Len(data))
          ignore == BitXor(AllOnes, bitsFor(0, fromIndex))
      IN  IF BitOr(ToInt32(Rd(data, word)), ignore) = AllOnes
          THEN LET w == skipFullDown(data, word - 1)
               IN  IF w < 0 THEN Ret(-1)
                   ELSE Plus(unIndex(w), findMSBSet(BitXor(ToInt32(Rd(data, w)), AllOnes)))
          ELSE Plus(unIndex(word),
                    findMSBSet(BitXor(BitOr(ToInt32(Rd(data, word)), ignore), AllOnes)))

\* for (; word >= 0; word--) { if (data[word] !== 0) break; }
RECURSIVE skipZeroDown(_, _)
skipZeroDown(data, word) ==
    IF word >= 0 /\ Rd(data, word) = 0 THEN skipZeroDown(data, word - 1)
    ELSE word

previousSetBit(data, fromIndex) ==
    IF fromIndex < 0 THEN Throw
    ELSE
      LET word == startWord(fromIndex, Len(data))
          mask == bitsFor(0, fromIndex)
      IN  IF BitAnd(ToInt32(Rd(data, word)), mask) = 0
          THEN LET w == skipZeroDown(data, word - 1)
               IN  IF w < 0 THEN Ret(-1)
                   ELSE Plus(unIndex(w), findMSBSet(BitAnd(ToInt32(Rd(data, w)), AllOnes)))
          ELSE Plus(unIndex(word), findMSBSet(BitAnd(ToInt32(Rd(data, word)), mask)))

length(data) ==
    IF Len(data) = 0 THEN 0
    ELSE previousSetBit(data, unIndex(Len(data)) - 1).value + 1

\* POP_CNT[word]
RECURSIVE POP_CNT(_)
POP_CNT(word) == IF word = 0 THEN 0 ELSE (word % 2) + POP_CNT(word \div 2)

RECURSIVE cardinalityFrom(_, _)
cardinalityFrom(data, i) ==
    IF i < Len(data) THEN POP_CNT(data[i + 1]) + cardinalityFrom(data, i + 1) ELSE 0

cardinality(data) == IF length(data) = 0 THEN 0 ELSE cardinalityFrom(data, 0)

(***************************************************************************)
(* Equality.                                                               *)
(***************************************************************************)
equals(data, other) ==
    LET len == length(data)
    IN  IF len # length(other) THEN FALSE
        ELSE IF len = 0 THEN TRUE
        ELSE \A i \in 0..getIndex(len - 1) : Rd(data, i) = Rd(other, i)

(***************************************************************************)
(* Iteration: one call of BitSetIterator.next on the cursor (index, mask)  *)
(* over the array the iterator was given.                                  *)
(***************************************************************************)
RECURSIVE next(_, _, _)
next(data, index, mask) ==
    IF index < Len(data)
    THEN LET bits == BitAnd(data[index + 1], mask)
         IN  IF bits # 0
             THEN LET bitNumber == unIndex(index) + findLSBSet(bits).value
                  IN  [index |-> index, mask |-> bitsFor(bitNumber + 1, 15),
                       done |-> FALSE, value |-> bitNumber]
             ELSE next(data, index + 1, AllOnes)
    ELSE [index |-> index, mask |-> mask, done |-> TRUE, value |-> -1]

(***************************************************************************)
(* Hashing.  hashCode() is MurmurHash.hashCode(this.data, 22).  MurmurHash *)
(* is the 32-bit Murmur3 mixing hash; a 32-bit value is kept as its two    *)
(* 16-bit halves.                                                          *)
(***************************************************************************)
U32(hi, lo) == [hi |-> hi, lo |-> lo]

FromInt(n) == U32(n \div 65536, n % 65536)

Xor32(a, b) == U32(BitXor(a.hi, b.hi), BitXor(a.lo, b.lo))

\* (a << r) | (a >>> (32 - r)) for 0 < r < 16
Rotl32(a, r) ==
    U32(((a.hi % (2 ^ (16 - r))) * (2 ^ r)) + (a.lo \div (2 ^ (16 - r))),
        ((a.lo % (2 ^ (16 - r))) * (2 ^ r)) + (a.hi \div (2 ^ (16 - r))))

\* a >>> n for 0 < n <= 16
Shr32(a, n) ==
    U32(a.hi \div (2 ^ n), ((a.hi % (2 ^ n)) * (2 ^ (16 - n))) + (a.lo \div (2 ^ n)))

Add32(a, b) ==
    U32((a.hi + b.hi + ((a.lo + b.lo) \div 65536)) % 65536, (a.lo + b.lo) % 65536)

\* the low 16 bits of x * y for 16-bit x and y
MulLo16(x, y) == ((x * (y % 256)) + (((x * (y \div 256)) % 256) * 256)) % 65536

\* the high 16 bits of the 32-bit product x * y of 16-bit x and y
MulHi16(x, y) ==
    (((x * (y % 256)) + (((x * (y \div 256)) % 256) * 256)) \div 65536)
        + ((x * (y \div 256)) \div 256)

\* Math.imul
Imul(a, b) ==
    U32((MulHi16(a.lo, b.lo) + MulLo16(a.hi, b.lo) + MulLo16(a.lo, b.hi)) % 65536,
        MulLo16(a.lo, b.lo))

MurmurUpdate(hash, value) ==
    LET k1 == Imul(FromInt(value), U32(52382, 11601))
        k2 == Imul(Rotl32(k1, 15), U32(7047, 13715))
        h1 == Rotl32(Xor32(hash, k2), 13)
    IN  Add32(Imul(h1, FromInt(5)), U32(58964, 27492))

MurmurFinish(hash, numberOfWords) ==
    LET h1 == Xor32(hash, FromInt(numberOfWords * 4))
        h2 == Imul(Xor32(h1, Shr32(h1, 16)), U32(34283, 51819))
        h3 == Imul(Xor32(h2, Shr32(h2, 13)), U32(49842, 44597))
    IN  Xor32(h3, Shr32(h3, 16))

RECURSIVE MurmurFold(_, _, _)
MurmurFold(hash, data, i) ==
    IF i < Len(data) THEN MurmurFold(MurmurUpdate(hash, data[i + 1]), data, i + 1)
    ELSE hash

MurmurHashCode(data, seed) == MurmurFinish(MurmurFold(FromInt(seed), data, 0), Len(data))

hashCode(data) == MurmurHashCode(data, 22)

(***************************************************************************)
(* The state machine.  sets[t] is the data field of the BitSet t; last     *)
(* records the latest call: its receiver, its arguments, the receiver's    *)
(* and the argument's stores before the call, and the outcome; iter is the *)
(* cursor of the latest iterator with the values it has yielded.           *)
(***************************************************************************)
BitSets == {"A", "B"}

\* arguments the calls are tried with
NBits == {16, 32, 48}

BitIdx == {-1, 0, 15, 20}

QFrom == {0, 3, 15, 16, 20, 32}

QBits == {0, 3, 15, 16}

Call(op, t, u, from, to, pre, other, thrown, value) ==
    [op |-> op, tgt |-> t, arg |-> u, from |-> from, to |-> to,
     pre |-> pre, other |-> other, thrown |-> thrown, value |-> value]

NoIter == [live |-> FALSE, data |-> EMPTY_DATA, index |-> 0, mask |-> AllOnes,
           out |-> << >>, done |-> FALSE]

Init ==
    /\ sets = [t \in BitSets |-> newBitSet(0).data]
    /\ last = Call("init", "A", "A", 0, 0, EMPTY_DATA, EMPTY_DATA, FALSE, 0)
    /\ iter = NoIter
    /\ nops = 0

\* a mutator of t ran: it left r.data and threw or not
Mutated(op, t, from, to, r) ==
    /\ nops < MaxOps
    /\ nops' = nops + 1
    /\ sets' = [sets EXCEPT ![t] = r.data]
    /\ last' = Call(op, t, t, from, to, sets[t], EMPTY_DATA, r.thrown, 0)
    /\ UNCHANGED iter

\* t = new BitSet(nbits)
New(t, nbits) == Mutated("new", t, nbits, nbits, newBitSet(nbits))

\* t.set(bitIndex)
SetBit(t, bitIndex) ==
    Mutated("set", t, bitIndex, bitIndex, set(sets[t], bitIndex, bitIndex, TRUE))

\* t.set(fromIndex, toIndex)
SetRange(t, fromIndex, toIndex) ==
    Mutated("setRange", t, fromIndex, toIndex, set(sets[t], fromIndex, toIndex, TRUE))

\* t.clear()
ClearAll(t) == Mutated("clearAll", t, 0, 0, Done(clearAll(sets[t])))

\* t.clear(bitIndex), which is t.set(bitIndex, false)
ClearBit(t, bitIndex) ==
    Mutated("clear", t, bitIndex, bitIndex, set(sets[t], bitIndex, bitIndex, FALSE))

\* t.clear(fromIndex, toIndex), which is t.set(fromIndex, toIndex, false)
ClearRange(t, fromIndex, toIndex) ==
    Mutated("clearRange", t, fromIndex, toIndex, set(sets[t], fromIndex, toIndex, FALSE))

\* t.flip(bitIndex)
FlipBit(t, bitIndex) ==
    Mutated("flip", t, bitIndex, bitIndex, flip(sets[t], bitIndex, bitIndex))

\* t.flip(fromIndex, toIndex)
FlipRange(t, fromIndex, toIndex) ==
    Mutated("flipRange", t, fromIndex, toIndex, flip(sets[t], fromIndex, toIndex))

\* t = u.clone()
Clone(t, u) == t # u /\ Mutated("clone", t, 0, 0, Done(clone(sets[u])))

\* a binary operation of t with the argument u ran and left data in t
Combined(op, t, u, data) ==
    /\ nops < MaxOps
    /\ nops' = nops + 1
    /\ sets' = [sets EXCEPT ![t] = data]
    /\ last' = Call(op, t, u, 0, 0, sets[t], sets[u], FALSE, 0)
    /\ UNCHANGED iter

And(t, u) == Combined("and", t, u, and(sets[t], sets[u]))

AndNot(t, u) == Combined("andNot", t, u, andNot(sets[t], sets[u]))

Or(t, u) == Combined("or", t, u, or(sets[t], sets[u]))

Xor(t, u) == Combined("xor", t, u, xor(sets[t], sets[u]))

Next ==
    \/ \E t \in BitSets, nbits \in NBits : New(t, nbits)
    \/ \E t \in BitSets, i \in BitIdx : SetBit(t, i)
    \/ \E t \in BitSets, f \in BitIdx, i \in BitIdx : SetRange(t, f, i)
    \/ \E t \in BitSets : ClearAll(t)
    \/ \E t \in BitSets, i \in BitIdx : ClearBit(t, i)
    \/ \E t \in BitSets, f \in BitIdx, i \in BitIdx : ClearRange(t, f, i)
    \/ \E t \in BitSets, i \in BitIdx : FlipBit(t, i)
    \/ \E t \in BitSets, f \in BitIdx, i \in BitIdx : FlipRange(t, f, i)
    \/ \E t \in BitSets, u \in BitSets : Clone(t, u)
    \/ \E t \in BitSets, u \in BitSets : And(t, u)
    \/ \E t \in BitSets, u \in BitSets : AndNot(t, u)
    \/ \E t \in BitSets, u \in BitSets : Or(t, u)
    \/ \E t \in BitSets, u \in BitSets : Xor(t, u)

Spec == Init /\ [][Next]_vars

(***************************************************************************)
(* Queries and iteration, from the stores that new BitSet(16 * n) followed *)
(* by set(i) for the i of a set of indices leaves.                         *)
(***************************************************************************)
RECURSIVE setAll(_, _)
setAll(data, S) ==
    IF S = {} THEN data
    ELSE LET i == CHOOSE j \in S : \A k \in S : j <= k
         IN  setAll(set(data, i, i, TRUE).data, S \ {i})

StoreSet == { setAll(newBitSet(16 * n).data, S) : n \in 0..MaxWords, S \in SUBSET QBits }

InitQuery ==
    /\ sets \in [BitSets -> StoreSet]
    /\ sets["B"] = EMPTY_DATA
    /\ last = Call("init", "A", "A", 0, 0, EMPTY_DATA, EMPTY_DATA, FALSE, 0)
    /\ iter = NoIter
    /\ nops = 0

\* a query of t ran with the outcome r
Queried(op, t, fromIndex, r) ==
    /\ last' = Call(op, t, t, fromIndex, fromIndex, sets[t], EMPTY_DATA, r.thrown, r.value)
    /\ UNCHANGED <<sets, iter, nops>>

NextClearBit(t, fromIndex) ==
    Queried("nextClearBit", t, fromIndex, nextClearBit(sets[t], fromIndex))

NextSetBit(t, fromIndex) ==
    Queried("nextSetBit", t, fromIndex, nextSetBit(sets[t], fromIndex))

PreviousClearBit(t, fromIndex) ==
    Queried("previousClearBit", t, fromIndex, previousClearBit(sets[t], fromIndex))

PreviousSetBit(t, fromIndex) ==
    Queried("previousSetBit", t, fromIndex, previousSetBit(sets[t], fromIndex))

\* t[Symbol.iterator](): new BitSetIterator(this.data)
NewIterator(t) ==
    /\ iter' = [live |-> TRUE, data |-> sets[t], index |-> 0, mask |-> AllOnes,
                out |-> << >>, done |-> FALSE]
    /\ UNCHANGED <<sets, last, nops>>

\* one call of next() on the iterator
IterNext ==
    /\ iter.live
    /\ Len(iter.out) < MaxYield
    /\ LET r == next(iter.data, iter.index, iter.mask)
       IN  iter' = [iter EXCEPT !.index = r.index, !.mask = r.mask,
                                !.done = r.done,
                                !.out = IF r.done THEN @ ELSE Append(@, r.value)]
    /\ UNCHANGED <<sets, last, nops>>

NextQuery ==
    \/ \E t \in BitSets, f \in QFrom : NextClearBit(t, f)
    \/ \E t \in BitSets, f \in QFrom : NextSetBit(t, f)
    \/ \E t \in BitSets, f \in QFrom : PreviousClearBit(t, f)
    \/ \E t \in BitSets, f \in QFrom : PreviousSetBit(t, f)
    \/ \E t \in BitSets : NewIterator(t)
    \/ IterNext

SpecQuery == InitQuery /\ [][NextQuery]_vars

(***************************************************************************)
(* Properties.                                                             *)
(***************************************************************************)
\* the bit indices the algebra laws range over: 0 .. max(old A.size, B.size) - 1
LawBits == 0..(Max(size(last.pre), size(last.other)) - 1)

\* the receiver's store after the latest call
post == sets[last.tgt]

\* C1: after A.or(B) every bit k below max(old A.size, B.size) is set in A
\* exactly when it was set in A or is set in B.
C1_OrLaw ==
    last.op = "or" =>
        \A k \in LawBits : get(post, k) = (get(last.pre, k) \/ get(last.other, k))

\* C2: after A.andNot(B) every bit k below max(old A.size, B.size) is set in A
\* exactly when it was set in A and is not set in B.
C2_AndNotLaw ==
    last.op = "andNot" =>
        \A k \in LawBits : get(post, k) = (get(last.pre, k) /\ ~get(last.other, k))

\* C3: after A.and(B) every bit k below max(old A.size, B.size) is set in A
\* exactly when it was set in both, and after A.xor(B) exactly when it was
\* set in one of the two only, whatever the two stores' lengths.
C3_AndXorLaw ==
    /\ last.op = "and" =>
        \A k \in LawBits : get(post, k) = (get(last.pre, k) /\ get(last.other, k))
    /\ last.op = "xor" =>
        \A k \in LawBits : get(post, k) = (get(last.pre, k) # get(last.other, k))

\* an xor of stores of different lengths that cleared a common bit, kept a bit
\* of the receiver and took a bit of the argument's upper word
C3_Witness ==
    /\ last.op = "xor"
    /\ Len(last.pre) < Len(last.other)
    /\ \E k \in LawBits : get(last.pre, k) /\ get(last.other, k) /\ ~get(post, k)
    /\ \E k \in LawBits : get(last.pre, k) /\ ~get(last.other, k) /\ get(post, k)
    /\ \E k \in LawBits : k >= size(last.pre) /\ get(last.other, k) /\ get(post, k)

\* the set-bit indices of a store
SetBits(data) == { k \in 0..(size(data) - 1) : get(data, k) }

\* C4: an iterator over an unmutated BitSet yields ascending, distinct
\* set-bit indices, never more than cardinality() of them, and has yielded
\* every set bit when next() reports done.
C4_IterationAscendingFinite ==
    iter.live =>
        /\ \A i \in 1..Len(iter.out) : iter.out[i] \in SetBits(iter.data)
        /\ \A i \in 1..(Len(iter.out) - 1) : iter.out[i] < iter.out[i + 1]
        /\ Len(iter.out) <= cardinality(iter.data)
        /\ iter.done => { iter.out[i] : i \in 1..Len(iter.out) } = SetBits(iter.data)

\* the bit indices a mutation can have touched
TouchedBits == 0..(Max(Max(size(last.pre), size(post)), last.to + 1))

\* C5: set(fromIndex, toIndex) with 0 <= fromIndex <= toIndex sets exactly the
\* bits fromIndex .. toIndex - 1 and leaves the others; on an empty BitSet
\* set(0, 20) gives cardinality 20.
C5_SetRangeExclusive ==
    (last.op = "setRange" /\ 0 <= last.from /\ last.from <= last.to) =>
        /\ ~last.thrown
        /\ \A k \in TouchedBits :
              get(post, k) = (get(last.pre, k) \/ (last.from <= k /\ k < last.to))
        /\ (last.pre = EMPTY_DATA /\ last.from = 0 /\ last.to = 20) => cardinality(post) = 20

RangeOps == {"set", "setRange", "clear", "clearRange", "flip", "flipRange"}

\* C6: set, clear and flip, scalar or range, called with fromIndex < 0 or
\* fromIndex > toIndex throw a RangeError and leave the store as it was.
C6_InvalidRangeUnchanged ==
    (last.op \in RangeOps /\ (last.from < 0 \/ last.from > last.to)) =>
        /\ last.thrown
        /\ post = last.pre

\* a range set with its ends swapped on a store that holds a bit
C6_Witness ==
    /\ last.op = "setRange"
    /\ 0 <= last.to
    /\ last.to < last.from
    /\ last.thrown
    /\ SetBits(last.pre) # {}
    /\ getIndex(last.from) >= Len(last.pre)

\* C7: BitSets that are equal have equal hash codes.
C7_EqualsImpliesSameHash ==
    \A t \in BitSets, u \in BitSets :
        equals(sets[t], sets[u]) => hashCode(sets[t]) = hashCode(sets[u])

\* the clear bits of the stored words at or after fromIndex
ClearFrom(data, fromIndex) == { k \in fromIndex..(size(data) - 1) : ~get(data, k) }

\* C8: nextClearBit(fromIndex) is the smallest clear index k >= fromIndex below
\* size, and -1 when the stored words hold none; never an index >= size.
C8_NextClearBitWithinStore ==
    (last.op = "nextClearBit" /\ last.from >= 0) =>
        /\ ~last.thrown
        /\ IF ClearFrom(last.pre, last.from) = {} THEN last.value = -1
           ELSE /\ last.value \in ClearFrom(last.pre, last.from)
                /\ \A k \in ClearFrom(last.pre, last.from) : last.value <= k

\* the set bits at or before fromIndex
SetUpTo(data, fromIndex) == { k \in 0..fromIndex : get(data, k) }

\* C9: previousSetBit(fromIndex) is the largest set index k <= fromIndex, and
\* -1 exactly when no bit at or below fromIndex is set.
C9_PreviousSetBitNearest ==
    (last.op = "previousSetBit" /\ last.from >= 0) =>
        /\ ~last.thrown
        /\ IF SetUpTo(last.pre, last.from) = {} THEN last.value = -1
           ELSE /\ last.value \in SetUpTo(last.pre, last.from)
                /\ \A k \in SetUpTo(last.pre, last.from) : k <= last.value

\* C10: previousClearBit(fromIndex) is -1 or a clear index k in 0..fromIndex
\* with every index of (k, fromIndex] set.
C10_PreviousClearBitNearest ==
    (last.op = "previousClearBit" /\ last.from >= 0) =>
        /\ ~last.thrown
        /\ \/ last.value = -1
           \/ /\ 0 <= last.value
              /\ last.value <= last.from
              /\ ~get(last.pre, last.value)
              /\ \A j \in (last.value + 1)..last.from : get(last.pre, j)

\* C11: after flip(bitIndex) with bitIndex >= 0, at or beyond the capacity or
\* not, get(bitIndex) is the complement of what it was and every other bit is
\* as it was.
C11_FlipBitComplements ==
    (last.op = "flip" /\ last.from >= 0) =>
        /\ ~last.thrown
        /\ \A k \in TouchedBits :
              get(post, k) = (IF k = last.from THEN ~get(last.pre, k) ELSE get(last.pre, k))

AlgebraOps == {"and", "or", "xor", "andNot"}

\* C12: after and, or, xor or andNot the receiver's word array is empty or its
\* last word is not zero.
C12_AlgebraTrimsTrailingZeros ==
    last.op \in AlgebraOps => (post = EMPTY_DATA \/ post[Len(post)] # 0)

(***************************************************************************)
(* Construction from a sequence of numbers.  The array the constructor     *)
(* allocates can have 2^28 words, so a constructed store is kept as its    *)
(* word count together with its first words; the words beyond those are    *)
(* the zeros of the allocation, which set(v) does not reach for a v of     *)
(* Numbers.                                                                *)
(***************************************************************************)
MaxLen == 2

\* the numbers a sequence is made of
Numbers == {0, 5, 16, 33}

\* the words kept of a store: enough for every number of Numbers
Held == 3

\* let max = -1; for (let v of arg) { if (max < v) max = v; }
RECURSIVE maxOf(_, _, _)
maxOf(numbers, i, max) ==
    IF i <= Len(numbers)
    THEN maxOf(numbers, i + 1, IF max < numbers[i] THEN numbers[i] ELSE max)
    ELSE max

\* new Uint16Array(getIndex(max - 1) + 1): the number of words allocated
allocated(numbers) == getIndex(maxOf(numbers, 1, -1) - 1) + 1

\* for (let v of arg) { this.set(v); }
RECURSIVE setEach(_, _, _)
setEach(data, numbers, i) ==
    IF i <= Len(numbers)
    THEN setEach(set(data, numbers[i], numbers[i], TRUE).data, numbers, i + 1)
    ELSE data

\* new BitSet(numbers) for a sequence of numbers that is not a BitSet
fromNumbers(numbers) ==
    LET n == allocated(numbers)
        data == setEach(NewArray(Min(n, Held)), numbers, 1)
    IN  [words |-> Max(n, Len(data)), data |-> data]

NumberSeqs == UNION { [1..n -> Numbers] : n \in 0..MaxLen }

\* t = new BitSet(numbers)
NewFrom(t, numbers) ==
    /\ nops < MaxOps
    /\ nops' = nops + 1
    /\ sets' = [sets EXCEPT ![t] = fromNumbers(numbers).data]
    /\ last' = Call("newFrom", t, t, 0, 0, sets[t], numbers, FALSE,
                    fromNumbers(numbers).words)
    /\ UNCHANGED iter

NextCtor == \E t \in BitSets, numbers \in NumberSeqs : NewFrom(t, numbers)

SpecCtor == Init /\ [][NextCtor]_vars

\* C13: new BitSet(numbers) for non-negative numbers of maximum m leaves a
\* store of floor(m / 16) + 1 words, for m = 0 too, and an empty store for
\* the empty sequence.
C13_StoreSizedToMaximum ==
    last.op = "newFrom" =>
        last.value = (IF last.other = << >> THEN 0
                      ELSE (maxOf(last.other, 1, -1) \div 16) + 1)

====
